---- MODULE Spec2Model ----
(***************************************************************************)
(* A model of rushdex: the scheduler RushEngine (src/lib/RushEngine.py)    *)
(* and the per-task state machine RushTask (src/lib/RushTask.py).          *)
(*                                                                         *)
(* The program is single-threaded asyncio code.  A step of the model is    *)
(* the code a coroutine runs between two awaits.  Coroutines that are      *)
(* ready to run wait in a FIFO queue (ready), as in the asyncio event      *)
(* loop; coroutines suspended on a network call or a timer are in the bag  *)
(* waiting, and the environment (the exchange, the clock) resumes them by  *)
(* appending them to the queue.                                            *)
(*                                                                         *)
(* The specifications share the variables.  EngineSpec is the scheduler    *)
(* over tasks seen only through their status, with max_concurrent_tasks    *)
(* set by hand below the room the accounts give; DefaultEngineSpec is the  *)
(* scheduler with the limit the configuration computes.  Spec is one task  *)
(* in full:                                                                *)
(* its handlers, the exchange's view of its orders, and the scheduler's    *)
(* retirement of it, in an environment where calls may fail and events may *)
(* come twice.  QuietSpec is the same task, followed further, in an        *)
(* environment where no call fails and no event comes twice.               *)
(*                                                                         *)
(* The user-data stream delivers FILLED or EXPIRED for the GTX orders.     *)
(* The events of MARKET orders are left out: a MARKET order is never a key *)
(* of open_orders between two steps, so the task ignores them.             *)
(* RushEngine.simulate_callback, which fabricates FILLED events in         *)
(* simulate mode, is not part of the environment.                          *)
(***************************************************************************)
EXTENDS Integers, Sequences, FiniteSets, Bags, TLC

\* ------------------------------------------------------------------------
\* Bounds of the model
\* ------------------------------------------------------------------------
\* task_runner(times=...): the number of finished tasks that ends the run.
Times == 1
\* How many terminal events the stream may deliver twice, over all orders.
MaxDup == 1
\* Once the task has sent more orders than this, it is followed no further.
MaxOrders == 4
\* The same, when no call fails and no event is delivered twice.
MaxOrdersQuiet == 7
\* Quantities a derived order size may take.
MaxQty == 2
\* How many EXPIRED events of another task's orders may be outstanding at the
\* task (scheduled or recorded).
MaxForeign == 1
\* Once the engine has created this many tasks, its launches are followed no further.
MaxTasks == 3
\* The largest notional and the largest price of a derived quantity.
MaxAmount == 6
MaxPrice == 4

\* ------------------------------------------------------------------------
\* Configuration (src/config.example.py)
\* ------------------------------------------------------------------------
Symbols == {"BTCUSDT", "ETHUSDT", "SOLUSDT"}
Accounts == {"a1", "a2", "a3"}
\* max_concurrent_tasks as the configuration file computes it:
\* int(len(accounts) / 2) * len(symbols)
DefaultLimit == (Cardinality(Accounts) \div 2) * Cardinality(Symbols)
\* A smaller value set by hand
HandSetLimit == 2
\* account.symbols: the markets an account supports
AccountSymbols(a) == IF a = "a3" THEN {"BTCUSDT"} ELSE Symbols

\* The two calls clear_all makes on every account
ClearCalls == {"cancel_all_open_orders", "clear_all_positions"}

\* RushTaskStatus
CREATED == "created"
STARTED == "started"
COMPLETED == "completed"
FAILED == "failed"

\* RushTaskStage, with the position the enum gives each stage
StageRank(s) ==
  CASE s = "prepare" -> 0
    [] s = "open_limit" -> 1
    [] s = "open_market" -> 2
    [] s = "hold" -> 3
    [] s = "close_limit" -> 4
    [] s = "close_market" -> 5
    [] s = "completed" -> 6

VARIABLES
  \* ---- RushEngine
  tasks,                  \* every RushTask the engine created: id -> record
  running_tasks,          \* dict task_id -> task, as the ids in insertion order
  completed_tasks,        \* list of task ids
  failed_tasks,           \* list of task ids
  account_running_tasks,  \* dict account_id -> set of task ids (a partial function)
  epc,                    \* the await task_runner is suspended at
  stop_flag,              \* the file "shutdown" exists
  error_flag,             \* the file "error" exists
  reconciled,             \* clear_all has run in this run
  clear_reqs,             \* the coroutines clear_all created: <<account, call>> -> state
  raised,                 \* what task_runner raised: "none", "failed_task",
                          \* "stop_mark", "error_flag"
  \* ---- one RushTask
  status,
  stage,
  open_orders,            \* dict order_id -> Order, as the ids in insertion order
  filled_orders,          \* list of order ids
  cancel_orders,          \* list of order ids
  expired_order_id_map,   \* set of order ids (keys of the map)
  ready,                  \* FIFO queue of coroutines ready to run
  waiting,                \* bag of coroutines suspended on I/O or a timer
  orders,                 \* the exchange's orders of the task: id -> record
  retired,                \* the engine removed the task from the occupancy index
  halted,                 \* the engine raised and the process ended
  unhandled,              \* a coroutine of the task ended with an exception nobody caught
  call_failed,            \* an order placement or cancellation of the task raised
  quote_failed,           \* a depth-quote call of the task raised
  hold_calls,             \* hold() coroutines created
  finish_calls,           \* finish() calls
  race,                   \* both legs of a phase were filled before a handler ran
  simulate,               \* config.simulate
  faults,                 \* the environment may fail calls and deliver events twice
  max_concurrent_tasks,   \* config.max_concurrent_tasks
  \* ---- one call of AsterExchangeAccountV1.order without a quantity
  target_amount,          \* the notional, deviation applied
  params_price,           \* float(params.price)
  step_size,              \* symbols[params.symbol].step_size, a string, as its characters
  params_quantity,        \* params.quantity once derived
  opc                     \* where the call is: "idle", "called", "derived", "raised"

orderCall == <<target_amount, params_price, step_size, params_quantity, opc>>
engineVars == <<tasks, running_tasks, completed_tasks, failed_tasks,
                account_running_tasks, epc, stop_flag, error_flag, reconciled, clear_reqs,
                raised>>
taskVars == <<status, stage, open_orders, filled_orders, cancel_orders,
              expired_order_id_map, ready, waiting, orders, retired, halted,
              unhandled, call_failed, quote_failed, hold_calls, finish_calls,
              race>>
vars == <<engineVars, taskVars, simulate, faults, max_concurrent_tasks, orderCall>>

\* ------------------------------------------------------------------------
\* Helpers on sequences
\* ------------------------------------------------------------------------
Range(s) == {s[i] : i \in 1..Len(s)}
RECURSIVE Without(_, _)
\* dict.pop(key) on a dict kept as its keys in insertion order
Without(s, x) ==
  IF s = <<>> THEN <<>>
  ELSE IF Head(s) = x THEN Without(Tail(s), x)
  ELSE <<Head(s)>> \o Without(Tail(s), x)

\* ========================================================================
\* RushEngine
\* ========================================================================
TaskIds == 1..Len(tasks)

\* The task ids an occupancy index holds for an account ({} when the key is absent)
IndexOf(index, a) == IF a \in DOMAIN index THEN index[a] ELSE {}

\* A faulty variant of AnyTaskRunning: the same-market test dropped
AnyTaskRunningNoCheck(index, a, symbol) == FALSE
\* any(task.symbol == symbol for _, task in _account_running_tasks.items())
AnyTaskRunning(index, a, symbol) == \E t \in IndexOf(index, a) : tasks[t].symbol = symbol

\* generate_available_account_symbols: symbol -> eligible accounts, markets
\* with fewer than 2 eligible accounts dropped
EligibleAccounts(index, symbol) ==
  {a \in Accounts : symbol \in AccountSymbols(a) /\ ~AnyTaskRunning(index, a, symbol)}
\* A faulty variant of generate_available_account_symbols: no market is popped
generate_available_account_symbolsNoPop(index) ==
  [s \in Symbols |-> EligibleAccounts(index, s)]
generate_available_account_symbols(index) ==
  [s \in {x \in Symbols : Cardinality(EligibleAccounts(index, x)) >= 2} |->
     EligibleAccounts(index, s)]

\* generate_next_task: the tasks it may return; {} stands for None
\* A faulty variant of generate_next_task: the first account is not removed
\* from the list before the second is drawn
generate_next_taskNoRemove(index) ==
  LET avail == generate_available_account_symbols(index)
  IN {[symbol |-> x[1], first |-> x[2], second |-> x[3], status |-> CREATED,
       launched |-> FALSE] :
        x \in {y \in (DOMAIN avail) \X Accounts \X Accounts :
                 /\ y[2] \in avail[y[1]]
                 /\ y[3] \in avail[y[1]]}}
generate_next_task(index) ==
  LET avail == generate_available_account_symbols(index)
  IN {[symbol |-> x[1], first |-> x[2], second |-> x[3], status |-> CREATED,
       launched |-> FALSE] :
        x \in {y \in (DOMAIN avail) \X Accounts \X Accounts :
                 /\ y[2] \in avail[y[1]]
                 /\ y[3] \in avail[y[1]] \ {y[2]}}}

\* remove_finished_tasks as a scan of running_tasks in dict order.  acc carries
\* the lists and the index as the loop leaves them; the scan stops at the first
\* FAILED task, where the code raises before any id is popped from
\* running_tasks.
RECURSIVE RemoveScan(_, _)
RemoveScan(ids, acc) ==
  IF ids = <<>> THEN acc
  ELSE
    LET t == Head(ids)
        dropped == [a \in DOMAIN acc.index |->
                      IF a \in {tasks[t].first, tasks[t].second}
                      THEN acc.index[a] \ {t} ELSE acc.index[a]]
    IN IF tasks[t].status = COMPLETED
       THEN RemoveScan(Tail(ids), [acc EXCEPT !.completed = Append(@, t),
                                              !.remove = @ \cup {t},
                                              !.index = dropped])
       ELSE IF tasks[t].status = FAILED
       THEN [acc EXCEPT !.failed = Append(@, t), !.index = dropped, !.raised = TRUE]
       ELSE RemoveScan(Tail(ids), acc)

\* The engine fields after remove_finished_tasks
remove_finished_tasks ==
  LET r0 == RemoveScan(running_tasks,
                       [completed |-> completed_tasks, failed |-> failed_tasks,
                        index |-> account_running_tasks, remove |-> {}, raised |-> FALSE])
  IN [completed |-> r0.completed, failed |-> r0.failed, index |-> r0.index,
      raised |-> r0.raised,
      running |-> IF r0.raised THEN running_tasks
                  ELSE SelectSeq(running_tasks, LAMBDA t : t \notin r0.remove)]

\* save_tasks: outside simulate mode the saved lists are cleared
Saved(list) == IF simulate THEN list ELSE <<>>

\* Lines 165-171: the index with the task under both of its accounts
Inserted(index, t, id) ==
  [a \in (DOMAIN index) \cup {t.first, t.second} |->
     IF a \in {t.first, t.second} THEN IndexOf(index, a) \cup {id} ELSE index[a]]

\* while not self.check_stop() and len(completed) + len(failed) < times
LoopCond == ~stop_flag /\ Len(completed_tasks) + Len(failed_tasks) < Times

AtLoopHead == epc \in {"start", "tick_sleep"}
Alive == epc \notin {"done", "raised"}

\* A faulty variant of BelowLimit: the launch loop never sees the limit
BelowLimitAlways(running) == TRUE
\* while len(self.running_tasks) < self.max_concurrent_tasks
BelowLimit(running) == Len(running) < max_concurrent_tasks

\* The launch loop (lines 161-173) from the engine fields r: a task is
\* generated and inserted and the loop sleeps before starting it, or the loop
\* is left for the poll sleep.
LaunchFrom(running, index) ==
  \/ /\ BelowLimit(running)
     /\ Len(tasks) < MaxTasks
     /\ \E t \in generate_next_task(index) :
          /\ tasks' = Append(tasks, t)
          /\ running_tasks' = Append(running, Len(tasks) + 1)
          /\ account_running_tasks' = Inserted(index, t, Len(tasks) + 1)
     /\ epc' = "launch_sleep"
  \/ /\ ~BelowLimit(running) \/ generate_next_task(index) = {}
     /\ tasks' = tasks
     /\ running_tasks' = running
     /\ account_running_tasks' = index
     /\ epc' = "tick_sleep"

\* A pass of the admission loop: remove_finished_tasks, then the launch loop.
Tick ==
  /\ AtLoopHead /\ LoopCond
  /\ LET r == remove_finished_tasks
     IN /\ ~r.raised
        /\ completed_tasks' = r.completed
        /\ failed_tasks' = r.failed
        /\ LaunchFrom(r.running, r.index)
  /\ UNCHANGED <<stop_flag, error_flag, reconciled, clear_reqs, raised, taskVars,
                 simulate, faults, max_concurrent_tasks, orderCall>>

\* remove_finished_tasks meets a FAILED task: the ValueError leaves
\* task_runner.
RemoveRaises ==
  /\ AtLoopHead /\ LoopCond
  /\ LET r == remove_finished_tasks
     IN /\ r.raised
        /\ completed_tasks' = r.completed
        /\ failed_tasks' = r.failed
        /\ account_running_tasks' = r.index
        /\ running_tasks' = r.running
  /\ epc' = "raised"
  /\ raised' = "failed_task"
  /\ UNCHANGED <<tasks, stop_flag, error_flag, reconciled, clear_reqs, taskVars,
                 simulate, faults, max_concurrent_tasks, orderCall>>

\* The sleep before a launch is over: create_task(task.run()), then the launch
\* loop goes on.
LaunchWake ==
  /\ epc = "launch_sleep"
  /\ LET id == running_tasks[Len(running_tasks)]
         started == [tasks EXCEPT ![id].launched = TRUE]
     IN \/ /\ BelowLimit(running_tasks)
           /\ Len(tasks) < MaxTasks
           /\ \E t \in generate_next_task(account_running_tasks) :
                /\ tasks' = Append(started, t)
                /\ running_tasks' = Append(running_tasks, Len(tasks) + 1)
                /\ account_running_tasks' =
                     Inserted(account_running_tasks, t, Len(tasks) + 1)
           /\ epc' = "launch_sleep"
        \/ /\ \/ ~BelowLimit(running_tasks)
              \/ generate_next_task(account_running_tasks) = {}
           /\ tasks' = started
           /\ UNCHANGED <<running_tasks, account_running_tasks>>
           /\ epc' = "tick_sleep"
  /\ UNCHANGED <<completed_tasks, failed_tasks, stop_flag, error_flag, reconciled, clear_reqs,
                 raised, taskVars, simulate, faults, max_concurrent_tasks, orderCall>>

\* The admission loop is over while tasks run: line 188 assigns task.stop.
\* RushTask is a pydantic model that declares no field stop and does not allow
\* extra attributes (RushTask.py lines 74-100), so the assignment raises
\* ValueError and task_runner ends there.  The drain loop (lines 189-194) is
\* entered only with running_tasks non-empty, that is, never.
StopMarkRaises ==
  /\ AtLoopHead /\ ~LoopCond
  /\ running_tasks # <<>>
  /\ epc' = "raised"
  /\ raised' = "stop_mark"
  /\ UNCHANGED <<tasks, running_tasks, completed_tasks, failed_tasks,
                 account_running_tasks, stop_flag, error_flag, reconciled, clear_reqs, taskVars,
                 simulate, faults, max_concurrent_tasks, orderCall>>

\* The admission loop is over and nothing runs: save_tasks, then clear_all is
\* awaited.
StartClearAll ==
  /\ AtLoopHead /\ ~LoopCond
  /\ running_tasks = <<>>
  /\ completed_tasks' = Saved(completed_tasks)
  /\ failed_tasks' = Saved(failed_tasks)
  /\ epc' = "clear_all"
  /\ clear_reqs' = [r \in Accounts \X ClearCalls |-> "pending"]
  /\ UNCHANGED <<tasks, running_tasks, account_running_tasks, stop_flag, error_flag,
                 reconciled, raised, taskVars, simulate, faults, max_concurrent_tasks, orderCall>>

\* A coroutine clear_all created returns: the account's resting orders are
\* cancelled, or its positions are closed with MARKET orders.
ClearCallReturns ==
  /\ epc = "clear_all"
  /\ \E r \in DOMAIN clear_reqs :
       /\ clear_reqs[r] = "pending"
       /\ clear_reqs' = [clear_reqs EXCEPT ![r] = "done"]
  /\ UNCHANGED <<tasks, running_tasks, completed_tasks, failed_tasks,
                 account_running_tasks, epc, stop_flag, error_flag, reconciled, raised,
                 taskVars, simulate, faults, max_concurrent_tasks, orderCall>>

\* A coroutine clear_all created raises (get_all_open_orders, cancel_all or
\* order raised); gather(return_exceptions=True) keeps the exception.
ClearCallFails ==
  /\ epc = "clear_all"
  /\ \E r \in DOMAIN clear_reqs :
       /\ clear_reqs[r] = "pending"
       /\ clear_reqs' = [clear_reqs EXCEPT ![r] = "failed"]
  /\ UNCHANGED <<tasks, running_tasks, completed_tasks, failed_tasks,
                 account_running_tasks, epc, stop_flag, error_flag, reconciled, raised,
                 taskVars, simulate, faults, max_concurrent_tasks, orderCall>>

\* A faulty variant of Gathered: clear_all does not wait for its coroutines
GatheredAtOnce == TRUE
\* await asyncio.gather(*tasks, return_exceptions=True) is over
Gathered == \A r \in DOMAIN clear_reqs : clear_reqs[r] # "pending"

\* clear_all returns: every coroutine it created has returned or raised.
ClearAllDone ==
  /\ epc = "clear_all"
  /\ Gathered
  /\ reconciled' = TRUE
  /\ epc' = "close"
  /\ UNCHANGED <<tasks, running_tasks, completed_tasks, failed_tasks,
                 account_running_tasks, stop_flag, error_flag, clear_reqs, raised,
                 taskVars, simulate, faults, max_concurrent_tasks, orderCall>>

\* The accounts are closed; lines 204-205 raise when the error flag is set.
Finish ==
  /\ epc = "close"
  /\ \/ /\ error_flag
        /\ epc' = "raised"
        /\ raised' = "error_flag"
     \/ /\ ~error_flag
        /\ epc' = "done"
        /\ raised' = raised
  /\ UNCHANGED <<tasks, running_tasks, completed_tasks, failed_tasks,
                 account_running_tasks, stop_flag, error_flag, reconciled, clear_reqs, taskVars,
                 simulate, faults, max_concurrent_tasks, orderCall>>

\* main.handle_signal writes the file "shutdown"
SignalStop ==
  /\ Alive /\ ~stop_flag
  /\ stop_flag' = TRUE
  /\ UNCHANGED <<tasks, running_tasks, completed_tasks, failed_tasks,
                 account_running_tasks, epc, error_flag, reconciled, clear_reqs, raised, taskVars,
                 simulate, faults, max_concurrent_tasks, orderCall>>

\* main.global_exception_handler writes the file "error"
SignalError ==
  /\ Alive /\ ~error_flag
  /\ error_flag' = TRUE
  /\ UNCHANGED <<tasks, running_tasks, completed_tasks, failed_tasks,
                 account_running_tasks, epc, stop_flag, reconciled, clear_reqs, raised, taskVars,
                 simulate, faults, max_concurrent_tasks, orderCall>>

\* A launched task changes status, seen from the engine: run() sets STARTED;
\* finish() sets COMPLETED and failed() sets FAILED, and change_status takes
\* either from any status the task has.  A task the engine has dropped from
\* running_tasks is never read again and is left alone.
TaskStatusStep ==
  /\ Alive
  /\ \E t \in Range(running_tasks) :
       /\ tasks[t].launched
       /\ \/ tasks[t].status = CREATED /\ tasks' = [tasks EXCEPT ![t].status = STARTED]
          \/ /\ tasks[t].status # CREATED
             /\ \E s \in {COMPLETED, FAILED} :
                  /\ s # tasks[t].status
                  /\ tasks' = [tasks EXCEPT ![t].status = s]
  /\ UNCHANGED <<running_tasks, completed_tasks, failed_tasks, account_running_tasks,
                 epc, stop_flag, error_flag, reconciled, clear_reqs, raised, taskVars,
                 simulate, faults, max_concurrent_tasks, orderCall>>

EngineNext ==
  \/ Tick
  \/ RemoveRaises
  \/ LaunchWake
  \/ StopMarkRaises
  \/ StartClearAll
  \/ ClearCallReturns
  \/ ClearCallFails
  \/ ClearAllDone
  \/ Finish
  \/ SignalStop
  \/ SignalError
  \/ TaskStatusStep


\* ========================================================================
\* RushTask
\* ========================================================================
\* The market and the two bound accounts of the task
task_symbol == "BTCUSDT"
first_account == "A"
second_account == "B"
OtherAccount(a) == IF a = first_account THEN second_account ELSE first_account

\* A coroutine: k the function, pc the await it is at, a the account
\* run() buys on, res the order ids of the two gathered placements, oid and
\* nid the order ids it holds in local variables.
Frame(k, pc, oid, nid) ==
  [k |-> k, pc |-> pc, oid |-> oid, nid |-> nid, a |-> first_account, res |-> <<0, 0>>]

OrderIds == 1..Len(orders)

\* An Order, from the call of AsterExchangeAccountV1.order on.  The id is
\* the place in orders.  st is the state of the call and of the order at the
\* exchange: "inflight" (the call has not returned), "rejected" (the call
\* raised), "resting", "filled", "expired", "canceled".  dl counts the
\* deliveries of its terminal event.  History: early, the EXPIRED event came
\* before the task registered the order; reg, the task registered it; repl,
\* the order a MARKET order replaces; via, the function that submitted it;
\* sent, order() got as far as the request to the exchange (line 108); cx,
\* the venue's last answer to a cancel of the order ("none", "ok", "code").
\* The fields of OrderParams but the timestamp come first: price is the side
\* of the quote the limit price is taken from.
OrderParams(side, type, price, qty, tif) ==
  [symbol |-> task_symbol, side |-> side, type |-> type, price |-> price, qty |-> qty,
   tif |-> tif]

NewOrder(params, acct, hold, repl, via) ==
  params @@ [acct |-> acct, hold |-> hold, st |-> "inflight", dl |-> 0, early |-> FALSE,
             reg |-> FALSE, repl |-> repl, via |-> via, sent |-> FALSE, cx |-> "none"]

\* order.order_params.model_copy()
model_copy(o) == [x \in {"symbol", "side", "type", "price", "qty", "tif"} |-> o[x]]

\* The task is followed while the process lives and the task has sent at
\* most MaxOrders orders (MaxOrdersQuiet in an environment without faults)
Active == ~halted /\ Len(orders) <= (IF faults THEN MaxOrders ELSE MaxOrdersQuiet)

\* The fields of the task a handler works on, threaded through its statements
TS ==
  [status |-> status, stage |-> stage, open |-> open_orders, filled |-> filled_orders,
   cancel |-> cancel_orders, map |-> expired_order_id_map, ready |-> ready,
   waiting |-> waiting, orders |-> orders, holds |-> hold_calls, fins |-> finish_calls]

Commit(ts) ==
  /\ status' = ts.status
  /\ stage' = ts.stage
  /\ open_orders' = ts.open
  /\ filled_orders' = ts.filled
  /\ cancel_orders' = ts.cancel
  /\ expired_order_id_map' = ts.map
  /\ ready' = ts.ready
  /\ waiting' = ts.waiting
  /\ orders' = ts.orders
  /\ hold_calls' = ts.holds
  /\ finish_calls' = ts.fins

\* asyncio.create_task(coroutine)
Spawn(ts, f) == [ts EXCEPT !.ready = Append(@, f)]
\* The coroutine awaits a network call or a timer
Suspend(ts, f) == [ts EXCEPT !.waiting = @ (+) SetToBag({f})]

change_status(ts, s) == [ts EXCEPT !.status = s]
change_stage(ts, s) == [ts EXCEPT !.stage = s]
\* A faulty variant of finish: the fill records are dropped on completion
finishAndReset(ts) ==
  change_stage(change_status([ts EXCEPT !.fins = @ + 1, !.filled = <<>>], COMPLETED),
               "completed")
\* finish(), lines 449-455, and failed(), lines 457-462
finish(ts) ==
  change_stage(change_status([ts EXCEPT !.fins = @ + 1], COMPLETED), "completed")
failed(ts) == change_status(ts, FAILED)

\* limit_order_on_filled: the order moves from open_orders to filled_orders,
\* and open_market() or close_market() is scheduled.
limit_order_on_filled(ts, id) ==
  LET t1 == [ts EXCEPT !.filled = Append(@, id), !.open = Without(@, id)]
  IN IF ts.orders[id].hold = "open"
     THEN Spawn(change_stage(t1, "open_market"), Frame("open_market", "start", 0, 0))
     ELSE Spawn(change_stage(t1, "close_market"), Frame("close_market", "start", 0, 0))

\* A faulty variant of MarketOrder: timeInForce and price are left as copied
MarketOrderKeepsPrice(os, id, hold, via) ==
  NewOrder([model_copy(os[id]) EXCEPT !.type = "MARKET"], os[id].acct, hold, id, via)
\* The MARKET order that replaces order id: the same params with type,
\* timeInForce and price changed, on the account of the order (lines
\* 169-179, 269-276, 314-321)
MarketOrder(os, id, hold, via) ==
  NewOrder([model_copy(os[id]) EXCEPT !.type = "MARKET", !.tif = "None", !.price = "None"],
           os[id].acct, hold, id, via)

\* handle_failed_limit_order, lines 166-179, for an order found in
\* open_orders: it moves to cancel_orders and the MARKET order is awaited in
\* the coroutine wf.
FallbackSubmit(ts, id, wf) ==
  Suspend([ts EXCEPT !.cancel = Append(@, id),
                     !.open = Without(@, id),
                     !.orders = Append(@, MarketOrder(ts.orders, id, ts.orders[id].hold,
                                                      "handle_failed_limit_order"))],
          [wf EXCEPT !.oid = id, !.nid = Len(ts.orders) + 1])

\* handle_failed_limit_order, lines 180-183, once the MARKET order nid is back
FallbackFilled(ts, nid) ==
  limit_order_on_filled([ts EXCEPT !.open = Append(@, nid)], nid)

\* A faulty variant of InExpiredMap: the placement path never consults the buffer
InExpiredMapNever(ts, id) == FALSE
\* order_id in self.expired_order_id_map.keys()
InExpiredMap(ts, id) == id \in ts.map

\* The loop over the gathered results in run() and close_limit(), from result
\* i on: an exception fails the task and returns; an order is registered and,
\* when its id is in the early-expiry buffer, the fallback is awaited inline.
RECURSIVE RegisterLoop(_, _, _)
RegisterLoop(ts, f, i) ==
  IF i > 2 THEN ts
  ELSE IF ts.orders[f.res[i]].st = "rejected" THEN failed(ts)
  ELSE LET id == f.res[i]
           t1 == [ts EXCEPT !.open = Append(@, id), !.orders[id].reg = TRUE]
       IN IF InExpiredMap(t1, id)
          THEN FallbackSubmit(t1, id, [f EXCEPT !.pc = "replay"])
          ELSE RegisterLoop(t1, f, i + 1)

\* A faulty variant of Recognized: a FILLED event is taken for any order of the task
RecognizedAny(id) == TRUE
\* order_id in self.open_orders.keys()
Recognized(id) == id \in Range(open_orders)

\* The task fields once the coroutine at the head of the queue is taken to run
Taken == [TS EXCEPT !.ready = Tail(ready)]
Running(k, pc) == Active /\ ready # <<>> /\ Head(ready).k \in k /\ Head(ready).pc \in pc

EngineUnchanged == UNCHANGED <<engineVars, simulate, faults, max_concurrent_tasks, orderCall>>

\* ---- run() ---------------------------------------------------------------
\* run(), lines 426-429: STARTED, the accounts are picked, the quote awaited
RunStart ==
  /\ Running({"run"}, {"start"})
  /\ \E acct \in {first_account, second_account} :
       Commit(Suspend(change_status(Taken, STARTED),
                      [Head(ready) EXCEPT !.pc = "depth", !.a = acct]))
  /\ UNCHANGED <<retired, halted, unhandled, call_failed, quote_failed, race>>
  /\ EngineUnchanged

\* A faulty variant of LimitOrder: both legs go to the account picked first
LimitOrderOneAccount(f, i, qty) ==
  NewOrder(OrderParams(IF i = 1 THEN "BUY" ELSE "SELL", "LIMIT",
                       IF i = 1 THEN "bid_price" ELSE "ask_price", qty, "GTX"),
           f.a, IF f.k = "run" THEN "open" ELSE "close", 0, f.k)
\* The GTX order of leg i, as run() (lines 431-436) and close_limit() (lines
\* 376-407) build it; in close_limit f.oid is open_buy_order and f.nid is
\* open_sell_order
LimitOrder(f, i, qty) ==
  IF f.k = "run"
  THEN IF i = 1
       THEN NewOrder(OrderParams("BUY", "LIMIT", "bid_price", qty, "GTX"),
                     f.a, "open", 0, "run")
       ELSE NewOrder(OrderParams("SELL", "LIMIT", "ask_price", qty, "GTX"),
                     OtherAccount(f.a), "open", 0, "run")
  ELSE IF i = 1
       THEN NewOrder(OrderParams("SELL", "LIMIT", "ask_price", orders[f.oid].qty, "GTX"),
                     orders[f.oid].acct, "close", 0, "close_limit")
       ELSE NewOrder(OrderParams("BUY", "LIMIT", "bid_price", orders[f.nid].qty, "GTX"),
                     orders[f.nid].acct, "close", 0, "close_limit")

\* The quantities order() derives from the notional for the two legs of
\* run(), in steps of the market, the first leg's taken as the unit; 0 is a
\* quotient below one step, which a badly sized account gives where the
\* environment has faults
LegQuantities ==
  {<<1, q>> : q \in 1..MaxQty} \cup (IF faults THEN {<<1, 0>>, <<0, 1>>, <<0, 0>>} ELSE {})

\* run(), lines 431-438, and close_limit(), lines 376-409: the two placements
\* are created, the stage is set, the gather awaited
PlaceLimits ==
  /\ Running({"run", "close_limit"}, {"priced"})
  /\ \E q \in LegQuantities :
       LET f == Head(ready)
           q1 == q[1]
           q2 == q[2]
           s == IF f.k = "run" THEN "open_limit" ELSE "close_limit"
           n == Len(orders)
       IN Commit(Suspend(
            change_stage([Taken EXCEPT !.orders = @ \o <<LimitOrder(f, 1, q1),
                                                         LimitOrder(f, 2, q2)>>], s),
            [f EXCEPT !.pc = "gather", !.res = <<n + 1, n + 2>>, !.oid = 0, !.nid = 0]))
  /\ UNCHANGED <<retired, halted, unhandled, call_failed, quote_failed, race>>
  /\ EngineUnchanged

\* run(), lines 439-447, and close_limit(), lines 410-418: the gather is
\* back, or the inline fallback's MARKET order is
Register ==
  /\ Running({"run", "close_limit"}, {"placed", "ordered"})
  /\ LET f == Head(ready)
     IN IF f.pc = "placed"
        THEN Commit(RegisterLoop(Taken, f, 1))
        ELSE Commit(RegisterLoop(FallbackFilled(Taken, f.nid), f,
                                 IF f.res[1] = f.oid THEN 2 ELSE 3))
  /\ UNCHANGED <<retired, halted, unhandled, call_failed, quote_failed, race>>
  /\ EngineUnchanged

\* ---- handle_failed_limit_order() as a task of its own ---------------------
HandleFailedStart ==
  /\ Running({"handle_failed_limit_order"}, {"start"})
  /\ LET f == Head(ready)
     IN IF f.oid \in Range(open_orders)
        THEN Commit(FallbackSubmit(Taken, f.oid, [f EXCEPT !.pc = "order"]))
        ELSE Commit([Taken EXCEPT !.map = @ \cup {f.oid}])
  /\ UNCHANGED <<retired, halted, unhandled, call_failed, quote_failed, race>>
  /\ EngineUnchanged

HandleFailedOrdered ==
  /\ Running({"handle_failed_limit_order"}, {"ordered"})
  /\ Commit(FallbackFilled(Taken, Head(ready).nid))
  /\ UNCHANGED <<retired, halted, unhandled, call_failed, quote_failed, race>>
  /\ EngineUnchanged

\* ---- open_market() and close_market() -------------------------------------
\* A faulty variant of InNextStage: the loser of the race is not told apart
InNextStageNever(s, next) == FALSE
\* Lines 251 and 296: the other handler of the phase has advanced the task
InNextStage(s, next) == s = next

\* Lines 247-265 and 292-310: nothing outstanding, the next stage is entered
\* unless it is the current one; else the first outstanding order is cancelled
MarketStart ==
  /\ Running({"open_market", "close_market"}, {"start"})
  /\ LET f == Head(ready)
     IN IF open_orders = <<>>
        THEN IF f.k = "open_market"
             THEN IF ~InNextStage(stage, "hold")
                  THEN Commit(Spawn([change_stage(Taken, "hold") EXCEPT !.holds = @ + 1],
                                    Frame("hold", "start", 0, 0)))
                  ELSE Commit(Taken)
             ELSE IF ~InNextStage(stage, "completed")
                  THEN Commit(finish(change_stage(Taken, "completed")))
                  ELSE Commit(Taken)
        ELSE Commit(Suspend(Taken, [f EXCEPT !.pc = "cancel", !.oid = open_orders[1]]))
  /\ UNCHANGED <<retired, halted, unhandled, call_failed, quote_failed, race>>
  /\ EngineUnchanged

\* Lines 266-276 and 311-321: the cancel is back; open_orders.pop raises
\* KeyError when the order is no longer outstanding; else the order moves to
\* cancel_orders, the stage is set and the MARKET order awaited
MarketCanceled ==
  /\ Running({"open_market", "close_market"}, {"canceled"})
  /\ LET f == Head(ready)
         hold == IF f.k = "open_market" THEN "open" ELSE "close"
     IN IF f.oid \in Range(open_orders)
        THEN /\ Commit(Suspend(
                  change_stage([Taken EXCEPT
                                  !.open = Without(@, f.oid),
                                  !.cancel = Append(@, f.oid),
                                  !.orders = Append(@, MarketOrder(orders, f.oid, hold, f.k))],
                               f.k),
                  [f EXCEPT !.pc = "order", !.nid = Len(orders) + 1]))
             /\ unhandled' = unhandled
        ELSE /\ Commit(Taken)
             /\ unhandled' = TRUE
  /\ UNCHANGED <<retired, halted, call_failed, quote_failed, race>>
  /\ EngineUnchanged

\* Lines 277-279 and 322-324: the MARKET order is recorded as filled; hold()
\* is scheduled, or the task finishes
MarketOrdered ==
  /\ Running({"open_market", "close_market"}, {"ordered"})
  /\ LET f == Head(ready)
         t1 == [Taken EXCEPT !.filled = Append(@, f.nid)]
     IN IF f.k = "open_market"
        THEN Commit(Spawn([t1 EXCEPT !.holds = @ + 1], Frame("hold", "start", 0, 0)))
        ELSE Commit(finish(t1))
  /\ UNCHANGED <<retired, halted, unhandled, call_failed, quote_failed, race>>
  /\ EngineUnchanged

\* ---- hold() ----------------------------------------------------------------
HoldStart ==
  /\ Running({"hold"}, {"start"})
  /\ Commit(Suspend(change_stage(Taken, "hold"), [Head(ready) EXCEPT !.pc = "sleep"]))
  /\ UNCHANGED <<retired, halted, unhandled, call_failed, quote_failed, race>>
  /\ EngineUnchanged

HoldSlept ==
  /\ Running({"hold"}, {"slept"})
  /\ Commit(Spawn(Taken, Frame("close_limit", "start", 0, 0)))
  /\ UNCHANGED <<retired, halted, unhandled, call_failed, quote_failed, race>>
  /\ EngineUnchanged

\* ---- close_limit() -------------------------------------------------------
OpenFilled(side) ==
  SelectSeq(filled_orders, LAMBDA id : orders[id].hold = "open" /\ orders[id].side = side)

\* Lines 357-370: the checks that raise ValueError
CloseLimitChecks ==
  /\ open_orders = <<>>
  /\ Len(filled_orders) = 2
  /\ Len(OpenFilled("BUY")) = 1
  /\ Len(OpenFilled("SELL")) = 1

\* Lines 357-374: the checks, then the quote is awaited; oid and nid keep
\* open_buy_order and open_sell_order
CloseLimitStart ==
  /\ Running({"close_limit"}, {"start"})
  /\ IF CloseLimitChecks
     THEN /\ Commit(Suspend(Taken, [Head(ready) EXCEPT !.pc = "depth",
                                                        !.oid = OpenFilled("BUY")[1],
                                                        !.nid = OpenFilled("SELL")[1]]))
          /\ unhandled' = unhandled
     ELSE /\ Commit(Taken)
          /\ unhandled' = TRUE
  /\ UNCHANGED <<retired, halted, call_failed, quote_failed, race>>
  /\ EngineUnchanged

\* ---- the exchange gateway and the clock ---------------------------------
Suspended(k, pc) == {f \in BagToSet(waiting) : f.k \in k /\ f.pc \in pc}
Resume(f, g) ==
  /\ waiting' = waiting (-) SetToBag({f})
  /\ ready' = Append(ready, g)
\* The coroutine f ends with an exception nobody catches
Dies(f) ==
  /\ waiting' = waiting (-) SetToBag({f})
  /\ unhandled' = TRUE

\* get_depth_position returns a quote
DepthReturns ==
  /\ Active
  /\ \E f \in Suspended({"run", "close_limit"}, {"depth"}) :
       Resume(f, [f EXCEPT !.pc = "priced"])
  /\ UNCHANGED <<status, stage, open_orders, filled_orders, cancel_orders,
                 expired_order_id_map, orders, retired, halted, unhandled, call_failed,
                 quote_failed,
                 hold_calls, finish_calls, race>>
  /\ EngineUnchanged

\* get_depth_position raises: the exception leaves run() or close_limit()
DepthFails ==
  /\ Active /\ faults
  /\ \E f \in Suspended({"run", "close_limit"}, {"depth"}) : Dies(f)
  /\ quote_failed' = TRUE
  /\ UNCHANGED <<status, stage, open_orders, filled_orders, cancel_orders,
                 expired_order_id_map, ready, orders, retired, halted, call_failed,
                 hold_calls, finish_calls, race>>
  /\ EngineUnchanged

\* AsterExchangeAccountV1.order returns for a gathered GTX placement: the
\* order rests at the exchange, and its events may flow before run() or
\* close_limit() resumes
PlacementAccepted ==
  /\ Active
  /\ \E id \in OrderIds :
       /\ orders[id].type = "LIMIT" /\ orders[id].st = "inflight"
       /\ orders[id].qty > 0
       /\ orders' = [orders EXCEPT ![id].st = "resting", ![id].sent = TRUE]
  /\ UNCHANGED <<status, stage, open_orders, filled_orders, cancel_orders,
                 expired_order_id_map, ready, waiting, retired, halted, unhandled,
                 call_failed, quote_failed, hold_calls, finish_calls, race>>
  /\ EngineUnchanged

\* order() raises for a gathered placement after the request (transport
\* failure, or an error code from the venue): the gather returns the exception
PlacementRejected ==
  /\ Active /\ faults
  /\ \E id \in OrderIds :
       /\ orders[id].type = "LIMIT" /\ orders[id].st = "inflight"
       /\ orders[id].qty > 0
       /\ orders' = [orders EXCEPT ![id].st = "rejected", ![id].sent = TRUE]
  /\ call_failed' = TRUE
  /\ quote_failed' = quote_failed
  /\ UNCHANGED <<status, stage, open_orders, filled_orders, cancel_orders,
                 expired_order_id_map, ready, waiting, retired, halted, unhandled,
                 hold_calls, finish_calls, race>>
  /\ EngineUnchanged

\* order(), lines 100-102: the ValueError for a quantity below one step
Undersized(o) == [o EXCEPT !.st = "rejected"]

\* order() raises for a gathered placement whose derived quantity is below
\* one step: the gather returns the exception
PlacementUndersized ==
  /\ Active
  /\ \E id \in OrderIds :
       /\ orders[id].type = "LIMIT" /\ orders[id].st = "inflight"
       /\ orders[id].qty = 0
       /\ orders' = [orders EXCEPT ![id] = Undersized(@)]
  /\ call_failed' = TRUE
  /\ quote_failed' = quote_failed
  /\ UNCHANGED <<status, stage, open_orders, filled_orders, cancel_orders,
                 expired_order_id_map, ready, waiting, retired, halted, unhandled,
                 hold_calls, finish_calls, race>>
  /\ EngineUnchanged

\* Both placements are done: the gather resumes run() or close_limit()
GatherReturns ==
  /\ Active
  /\ \E f \in Suspended({"run", "close_limit"}, {"gather"}) :
       /\ orders[f.res[1]].st # "inflight" /\ orders[f.res[2]].st # "inflight"
       /\ Resume(f, [f EXCEPT !.pc = "placed"])
  /\ UNCHANGED <<status, stage, open_orders, filled_orders, cancel_orders,
                 expired_order_id_map, orders, retired, halted, unhandled, call_failed,
                 quote_failed,
                 hold_calls, finish_calls, race>>
  /\ EngineUnchanged

AwaitingMarket ==
  Suspended({"run", "close_limit", "handle_failed_limit_order", "open_market",
             "close_market"}, {"order", "replay"})

\* order() returns the MARKET order
MarketOrderReturns ==
  /\ Active
  /\ \E f \in AwaitingMarket :
       /\ orders' = [orders EXCEPT ![f.nid].st = "filled", ![f.nid].sent = TRUE]
       /\ Resume(f, [f EXCEPT !.pc = "ordered"])
  /\ UNCHANGED <<status, stage, open_orders, filled_orders, cancel_orders,
                 expired_order_id_map, retired, halted, unhandled, call_failed,
                 quote_failed,
                 hold_calls, finish_calls, race>>
  /\ EngineUnchanged

\* order() raises for the MARKET order: nothing catches the exception
MarketOrderFails ==
  /\ Active /\ faults
  /\ \E f \in AwaitingMarket :
       /\ orders' = [orders EXCEPT ![f.nid].st = "rejected", ![f.nid].sent = TRUE]
       /\ Dies(f)
  /\ call_failed' = TRUE
  /\ quote_failed' = quote_failed
  /\ UNCHANGED <<status, stage, open_orders, filled_orders, cancel_orders,
                 expired_order_id_map, ready, retired, halted,
                 hold_calls, finish_calls, race>>
  /\ EngineUnchanged

\* What delete_order_v1 may answer for order id: "ok", the order was resting
\* and is cancelled; "code", an error code (the order was filled, expired or
\* cancelled before, its event delivered or still to come)
VenueAnswers(id) == IF orders[id].st = "resting" THEN {"ok", "code"} ELSE {"code"}

\* A faulty variant of cancel: the error code raises in simulate mode too
cancelAlwaysRaises(answer) == IF answer = "code" THEN "ValueError" ELSE "CanceledOrder"
\* AsterExchangeAccountV1.cancel, lines 118-122, on the venue's answer
cancel(answer) == IF answer = "code" /\ ~simulate THEN "ValueError" ELSE "CanceledOrder"

\* AsterExchangeAccountV1.cancel returns a CanceledOrder
CancelReturns ==
  /\ Active
  /\ \E f \in Suspended({"open_market", "close_market"}, {"cancel"}) :
       \E answer \in VenueAnswers(f.oid) :
         /\ cancel(answer) = "CanceledOrder"
         /\ orders' = [orders EXCEPT ![f.oid].st = IF answer = "ok" THEN "canceled" ELSE @,
                                     ![f.oid].cx = answer]
         /\ Resume(f, [f EXCEPT !.pc = "canceled"])
  /\ UNCHANGED <<status, stage, open_orders, filled_orders, cancel_orders,
                 expired_order_id_map, retired, halted, unhandled, call_failed,
                 quote_failed,
                 hold_calls, finish_calls, race>>
  /\ EngineUnchanged

\* AsterExchangeAccountV1.cancel raises for the venue's error code: nothing
\* catches the exception in open_market() or close_market()
CancelRejected ==
  /\ Active
  /\ \E f \in Suspended({"open_market", "close_market"}, {"cancel"}) :
       \E answer \in VenueAnswers(f.oid) :
         /\ cancel(answer) = "ValueError"
         /\ orders' = [orders EXCEPT ![f.oid].cx = answer]
         /\ Dies(f)
  /\ call_failed' = TRUE
  /\ quote_failed' = quote_failed
  /\ UNCHANGED <<status, stage, open_orders, filled_orders, cancel_orders,
                 expired_order_id_map, ready, retired, halted,
                 hold_calls, finish_calls, race>>
  /\ EngineUnchanged

\* cancel raises without an answer of the venue (transport failure)
CancelFails ==
  /\ Active /\ faults
  /\ \E f \in Suspended({"open_market", "close_market"}, {"cancel"}) : Dies(f)
  /\ call_failed' = TRUE
  /\ quote_failed' = quote_failed
  /\ UNCHANGED <<status, stage, open_orders, filled_orders, cancel_orders,
                 expired_order_id_map, ready, orders, retired, halted,
                 hold_calls, finish_calls, race>>
  /\ EngineUnchanged

\* asyncio.sleep(hold_time) is over
TimerFires ==
  /\ Active
  /\ \E f \in Suspended({"hold"}, {"sleep"}) : Resume(f, [f EXCEPT !.pc = "slept"])
  /\ UNCHANGED <<status, stage, open_orders, filled_orders, cancel_orders,
                 expired_order_id_map, orders, retired, halted, unhandled, call_failed,
                 quote_failed,
                 hold_calls, finish_calls, race>>
  /\ EngineUnchanged

\* Events delivered a second time, over all orders
Dups ==
  Cardinality({id \in OrderIds : orders[id].dl >= 2})
    + Cardinality({id \in OrderIds : orders[id].dl >= 3})

\* The stream may deliver the event st of order id: the first time as the
\* exchange settles the resting order, then again as a duplicate.
\* RushEngine.callback dispatches to the tasks in the occupancy index of the
\* account.
Deliverable(id, st) ==
  /\ Active /\ ~retired
  /\ orders[id].type = "LIMIT"
  /\ \/ orders[id].st = "resting"
     \/ orders[id].st = st /\ faults /\ Dups < MaxDup

\* The handlers of a phase, for the race of two fills
HandlerOf(hold) == IF hold = "open" THEN "open_market" ELSE "close_market"
PhaseOrders(os, hold) == {id \in 1..Len(os) : os[id].hold = hold}
RaceNow(ts, hold) ==
  /\ Cardinality(PhaseOrders(ts.orders, hold)) = 2
  /\ \A id \in PhaseOrders(ts.orders, hold) :
       ts.orders[id].type = "LIMIT" /\ id \in Range(ts.filled)
  /\ Cardinality({i \in 1..Len(ts.ready) :
                    ts.ready[i].k = HandlerOf(hold) /\ ts.ready[i].pc = "start"}) = 2

\* order_update_callback with a FILLED event
DeliverFilled ==
  \E id \in OrderIds :
    /\ Deliverable(id, "filled")
    /\ LET t0 == [TS EXCEPT !.orders[id].dl = @ + 1, !.orders[id].st = "filled"]
           t1 == IF Recognized(id) THEN limit_order_on_filled(t0, id) ELSE t0
       IN /\ Commit(t1)
          /\ race' = IF RaceNow(t1, orders[id].hold)
                     THEN race \cup {orders[id].hold} ELSE race
    /\ UNCHANGED <<retired, halted, unhandled, call_failed, quote_failed>>
    /\ EngineUnchanged

\* order_update_callback with an EXPIRED event: handle_failed_limit_order is
\* scheduled as a task
DeliverExpired ==
  \E id \in OrderIds :
    /\ Deliverable(id, "expired")
    /\ Commit(Spawn([TS EXCEPT !.orders[id].dl = @ + 1,
                               !.orders[id].st = "expired",
                               !.orders[id].early = @ \/ ~orders[id].reg],
                    Frame("handle_failed_limit_order", "start", id, 0)))
    /\ UNCHANGED <<retired, halted, unhandled, call_failed, quote_failed, race>>
    /\ EngineUnchanged

\* The order id of an order of another task on one of the two accounts:
\* RushEngine.callback hands every event of an account to every task the
\* occupancy index holds under it.
ForeignId == 0

\* order_update_callback returns at once: the event has no order, its status
\* is neither FILLED nor EXPIRED, or it is the FILLED event of another task's
\* order (lines 191-207)
DeliverIgnored ==
  /\ Active /\ ~retired
  /\ UNCHANGED vars

\* order_update_callback with the EXPIRED event of another task's order:
\* handle_failed_limit_order is scheduled as a task
DeliverForeignExpired ==
  /\ Active /\ ~retired
  /\ Cardinality({i \in 1..Len(ready) : ready[i].oid = ForeignId
                                        /\ ready[i].k = "handle_failed_limit_order"})
       + Cardinality(expired_order_id_map \cap {ForeignId}) < MaxForeign
  /\ Commit(Spawn(TS, Frame("handle_failed_limit_order", "start", ForeignId, 0)))
  /\ UNCHANGED <<retired, halted, unhandled, call_failed, quote_failed, race>>
  /\ EngineUnchanged

\* RushEngine.remove_finished_tasks meets the task: a COMPLETED task leaves
\* the occupancy index; for a FAILED one it raises, which ends the process
EngineRetires ==
  /\ Active /\ ~retired
  /\ status \in {COMPLETED, FAILED}
  /\ retired' = TRUE
  /\ halted' = (status = FAILED)
  /\ UNCHANGED <<status, stage, open_orders, filled_orders, cancel_orders,
                 expired_order_id_map, ready, waiting, orders, unhandled, call_failed, quote_failed,
                 hold_calls, finish_calls, race>>
  /\ EngineUnchanged

TaskNext ==
  \/ RunStart
  \/ PlaceLimits
  \/ Register
  \/ HandleFailedStart
  \/ HandleFailedOrdered
  \/ MarketStart
  \/ MarketCanceled
  \/ MarketOrdered
  \/ HoldStart
  \/ HoldSlept
  \/ CloseLimitStart
  \/ DepthReturns
  \/ DepthFails
  \/ PlacementAccepted
  \/ PlacementRejected
  \/ PlacementUndersized
  \/ GatherReturns
  \/ MarketOrderReturns
  \/ MarketOrderFails
  \/ CancelReturns
  \/ CancelRejected
  \/ CancelFails
  \/ TimerFires
  \/ DeliverFilled
  \/ DeliverExpired
  \/ DeliverIgnored
  \/ DeliverForeignExpired
  \/ EngineRetires

\* ========================================================================
\* AsterExchangeAccountV1.order: the quantity derived from the notional
\* ========================================================================
\* stepSize strings of the exchange's LOT_SIZE filter, character by character
StepSizes ==
  { <<"1">>, <<"1", ".", "0">>, <<"0", ".", "1">>, <<"0", ".", "1", "0">>,
    <<"0", ".", "5">>, <<"0", ".", "0", "1">> }

Digits == <<"0", "1", "2", "3", "4", "5", "6", "7", "8", "9">>
DigitOf(c) == (CHOOSE d \in 1..10 : Digits[d] = c) - 1

RECURSIVE Pow10(_)
Pow10(k) == IF k = 0 THEN 1 ELSE 10 * Pow10(k - 1)

\* int() of a string of digits
RECURSIVE IntOf(_)
IntOf(cs) ==
  IF cs = <<>> THEN 0 ELSE 10 * IntOf(SubSeq(cs, 1, Len(cs) - 1)) + DigitOf(cs[Len(cs)])

HasDot(cs) == \E i \in 1..Len(cs) : cs[i] = "."
DotAt(cs) == CHOOSE i \in 1..Len(cs) : cs[i] = "." /\ \A j \in 1..(i - 1) : cs[j] # "."
\* step_size.split('.')[0] and step_size.split('.')[1]
IntPart(cs) == IF HasDot(cs) THEN SubSeq(cs, 1, DotAt(cs) - 1) ELSE cs
FracPart(cs) == IF HasDot(cs) THEN SubSeq(cs, DotAt(cs) + 1, Len(cs)) ELSE <<>>

\* str.rstrip('0')
RECURSIVE rstrip0(_)
rstrip0(cs) ==
  IF cs # <<>> /\ cs[Len(cs)] = "0" THEN rstrip0(SubSeq(cs, 1, Len(cs) - 1)) ELSE cs

\* float(step_size), as the fraction num / den
StepFloat(cs) == [num |-> IntOf(IntPart(cs) \o FracPart(cs)), den |-> Pow10(Len(FracPart(cs)))]

\* format_to_stepsize, lines 15-23: the number of decimals of the step
decimal_places(cs) ==
  IF HasDot(cs)
  THEN IF rstrip0(FracPart(cs)) = <<>> THEN Len(FracPart(cs)) ELSE Len(rstrip0(FracPart(cs)))
  ELSE 0

RECURSIVE Pow5(_)
Pow5(k) == IF k = 0 THEN 1 ELSE 5 * Pow5(k - 1)

\* round(number, decimal_places) for number = n / p, in units of
\* 10^-decimal_places: the nearest multiple.  A decimal tie (2q+1)/(2*10^d)
\* that a double holds exactly goes to the even neighbour; one that no double
\* holds is read from the double next to it, which lies on either side.
Rounded(n, p, places) ==
  LET q == (n * Pow10(places)) \div p
      r == (n * Pow10(places)) % p
  IN IF 2 * r < p THEN {q}
     ELSE IF 2 * r > p THEN {q + 1}
     ELSE IF (2 * q + 1) % Pow5(places) = 0
          THEN {IF q % 2 = 0 THEN q ELSE q + 1}
          ELSE {q, q + 1}

\* format_to_stepsize(number, step_size), lines 25-33, for number = n / p:
\* the strings it may return, each as its digits without the point (units)
\* and the number of digits after the point (places)
format_to_stepsize(n, p, cs) ==
  {[units |-> u, places |-> decimal_places(cs)] : u \in Rounded(n, p, decimal_places(cs))}

\* Line 100: target_amount / float(params.price) < float(step_size)
BelowStep(n, p, cs) == n * StepFloat(cs).den < StepFloat(cs).num * p

\* order(), lines 90-104, with params.quantity None: the quantity is derived
OrderDerives ==
  /\ opc = "called"
  /\ ~BelowStep(target_amount, params_price, step_size)
  /\ params_quantity' \in format_to_stepsize(target_amount, params_price, step_size)
  /\ opc' = "derived"
  /\ UNCHANGED <<engineVars, taskVars, simulate, faults, max_concurrent_tasks,
                 target_amount, params_price, step_size>>

\* order(), lines 100-102: the notional buys less than one step, ValueError
OrderRaises ==
  /\ opc = "called"
  /\ BelowStep(target_amount, params_price, step_size)
  /\ opc' = "raised"
  /\ UNCHANGED <<engineVars, taskVars, simulate, faults, max_concurrent_tasks,
                 target_amount, params_price, step_size, params_quantity>>

OrderNext ==
  \/ OrderDerives
  \/ OrderRaises

\* ========================================================================
\* Specifications
\* ========================================================================
Init ==
  /\ tasks = <<>>
  /\ running_tasks = <<>>
  /\ completed_tasks = <<>>
  /\ failed_tasks = <<>>
  /\ account_running_tasks = <<>>
  /\ epc = "start"
  /\ stop_flag = FALSE
  /\ error_flag = FALSE
  /\ reconciled = FALSE
  /\ clear_reqs = <<>>
  /\ raised = "none"
  /\ status = CREATED
  /\ stage = "prepare"
  /\ open_orders = <<>>
  /\ filled_orders = <<>>
  /\ cancel_orders = <<>>
  /\ expired_order_id_map = {}
  /\ ready = <<Frame("run", "start", 0, 0)>>
  /\ waiting = EmptyBag
  /\ orders = <<>>
  /\ retired = FALSE
  /\ halted = FALSE
  /\ unhandled = FALSE
  /\ call_failed = FALSE
  /\ quote_failed = FALSE
  /\ hold_calls = 0
  /\ finish_calls = 0
  /\ race = {}
  /\ simulate \in BOOLEAN

\* No quantity is being derived
NoOrderCall ==
  /\ opc = "idle"
  /\ target_amount = 0 /\ params_price = 0 /\ step_size = <<>> /\ params_quantity = <<>>

\* The environment may fail calls and deliver events twice
InitFaults == Init /\ NoOrderCall /\ faults = TRUE /\ max_concurrent_tasks = HandSetLimit
\* The same, with max_concurrent_tasks as the configuration file computes it
InitDefault == Init /\ NoOrderCall /\ faults = TRUE /\ max_concurrent_tasks = DefaultLimit
\* No call fails, no event is delivered twice, and the venue's error codes
\* are not swallowed
InitQuiet ==
  /\ Init /\ NoOrderCall
  /\ faults = FALSE /\ simulate = FALSE /\ max_concurrent_tasks = HandSetLimit

\* The steps of a task in an environment without faults
QuietNext ==
  \/ RunStart
  \/ PlaceLimits
  \/ Register
  \/ HandleFailedStart
  \/ HandleFailedOrdered
  \/ MarketStart
  \/ MarketCanceled
  \/ MarketOrdered
  \/ HoldStart
  \/ HoldSlept
  \/ CloseLimitStart
  \/ DepthReturns
  \/ PlacementAccepted
  \/ GatherReturns
  \/ MarketOrderReturns
  \/ CancelReturns
  \/ CancelRejected
  \/ TimerFires
  \/ DeliverFilled
  \/ DeliverExpired
  \/ EngineRetires

\* One task, launched by the engine (create_task(task.run()), line 175)
Spec == InitFaults /\ [][TaskNext]_vars
\* One task in an environment without faults
QuietSpec == InitQuiet /\ [][QuietNext]_vars
\* The scheduler
EngineSpec == InitFaults /\ [][EngineNext]_vars
\* The scheduler under the default limit, where the account pool, not the
\* limit, ends the launch loop
DefaultEngineSpec == InitDefault /\ [][EngineNext]_vars
\* One task in an environment without faults where every call returns, every
\* resting order gets its event, every timer ends and every scheduled
\* coroutine runs
LiveSpec ==
  /\ InitQuiet /\ [][QuietNext]_vars
  /\ WF_vars(RunStart) /\ WF_vars(PlaceLimits) /\ WF_vars(Register)
  /\ WF_vars(HandleFailedStart) /\ WF_vars(HandleFailedOrdered)
  /\ WF_vars(MarketStart) /\ WF_vars(MarketCanceled) /\ WF_vars(MarketOrdered)
  /\ WF_vars(HoldStart) /\ WF_vars(HoldSlept) /\ WF_vars(CloseLimitStart)
  /\ WF_vars(DepthReturns) /\ WF_vars(PlacementAccepted) /\ WF_vars(GatherReturns)
  /\ WF_vars(MarketOrderReturns) /\ WF_vars(CancelReturns \/ CancelRejected)
  /\ WF_vars(TimerFires)
  /\ WF_vars(DeliverFilled \/ DeliverExpired)

\* One call of order() without a quantity, for every notional, price and step
InitOrder ==
  /\ Init /\ simulate = FALSE /\ faults = FALSE /\ max_concurrent_tasks = HandSetLimit
  /\ opc = "called"
  /\ target_amount \in 1..MaxAmount
  /\ params_price \in 1..MaxPrice
  /\ step_size \in StepSizes
  /\ params_quantity = <<>>
OrderSpec == InitOrder /\ [][OrderNext]_vars
\* ========================================================================
\* Properties
\* ========================================================================
\* C1: no account is bound to two running tasks on the same market: any two
\* distinct tasks the occupancy index holds under one account have different
\* symbols.
C1_NoSharedMarket ==
  \A a \in DOMAIN account_running_tasks :
    \A t1, t2 \in account_running_tasks[a] :
      t1 # t2 => tasks[t1].symbol # tasks[t2].symbol
\* An account is bound to two running tasks at once
C1_Witness ==
  \E a \in DOMAIN account_running_tasks : Cardinality(account_running_tasks[a]) >= 2

\* C2: when a running task is FAILED, task_runner runs clear_all before the
\* ValueError raised for the failed task leaves it: whenever task_runner has
\* raised for a failed task, the reconcile has run.
C2_ReconcileBeforeFatal == raised = "failed_task" => reconciled
\* Orders of a phase among the ids of a list
OfPhase(list, hold) == Cardinality({i \in 1..Len(list) : orders[list[i]].hold = hold})
\* MARKET orders handle_failed_limit_order has submitted to replace order id
Fallbacks(id) ==
  Cardinality({n \in OrderIds : orders[n].repl = id
                                /\ orders[n].via = "handle_failed_limit_order"})
\* A coroutine of function k is in the queue, not yet started
Pending(k) == \E i \in 1..Len(ready) : ready[i].k = k /\ ready[i].pc = "start"

\* C3: status only moves forward CREATED -> STARTED -> (COMPLETED or FAILED):
\* a FAILED task never becomes COMPLETED, a COMPLETED task never becomes
\* FAILED, and no status returns to STARTED or CREATED.
C3_StatusForward ==
  [][/\ status = FAILED => status' = FAILED
     /\ status = COMPLETED => status' = COMPLETED
     /\ status = STARTED => status' # CREATED]_vars

\* C4: stage only moves forward through PREPARE, OPEN_LIMIT, OPEN_MARKET,
\* HOLD, CLOSE_LIMIT, CLOSE_MARKET, COMPLETED: no step sets a stage earlier
\* in the sequence than the current one.
C4_StageForward == [][StageRank(stage') >= StageRank(stage)]_vars

\* C5: when the FILLED events of both legs of a phase are delivered before
\* either scheduled handler runs, the task advances exactly once: for the open
\* phase at most one hold() is started, and exactly one once both handlers
\* have run; for the close phase at most one finish(), and exactly one once
\* both handlers have run.
C5_RaceAdvancesOnce ==
  /\ "open" \in race =>
       /\ hold_calls <= 1
       /\ ~Pending("open_market") => hold_calls = 1
  /\ "close" \in race =>
       /\ finish_calls <= 1
       /\ ~Pending("close_market") => finish_calls = 1
\* Both close legs were filled before a handler ran, both handlers have run,
\* and the task has finished
C5_Witness ==
  /\ race = {"open", "close"}
  /\ ~Pending("close_market")
  /\ finish_calls = 1 /\ hold_calls = 1 /\ status = COMPLETED

\* C6: an order whose EXPIRED event was delivered before run() or
\* close_limit() registered it gets, once registered, exactly one fallback
\* MARKET order: never two, and one as soon as no handle_failed_limit_order
\* task for it waits to start, with duplicate EXPIRED events or without.
C6_EarlyExpiryOneFallback ==
  \A id \in OrderIds :
    (orders[id].early /\ orders[id].reg) =>
      /\ Fallbacks(id) <= 1
      /\ (\A i \in 1..Len(ready) :
            ~(ready[i].k = "handle_failed_limit_order" /\ ready[i].pc = "start"
              /\ ready[i].oid = id))
           => Fallbacks(id) = 1
\* The EXPIRED event of an order came twice, first before the order was
\* registered; the buffered event was replayed and the fallback submitted
C6_Witness ==
  \E id \in OrderIds :
    /\ orders[id].early /\ orders[id].reg /\ orders[id].dl >= 2
    /\ id \in expired_order_id_map
    /\ Fallbacks(id) = 1
    /\ ~Pending("handle_failed_limit_order")

\* C7: when a GTX open leg has expired, the task enters HOLD only with the
\* fallback fill recorded: at the step that sets the stage to HOLD,
\* filled_orders holds exactly 2 entries, both of the open phase, and no
\* order is outstanding.
C7_HoldAfterFallback ==
  [][((\E id \in OrderIds : orders[id].hold = "open" /\ orders[id].st = "expired")
        /\ stage # "hold" /\ stage' = "hold")
       => (/\ Len(filled_orders') = 2
           /\ OfPhase(filled_orders', "open") = 2
           /\ open_orders' = <<>>)]_vars

\* C8: a FILLED event delivered again for an order already moved from
\* open_orders to filled_orders appends no filled record, schedules no
\* open_market() or close_market() and leaves the stage unchanged.
C8_DuplicateFillIgnored ==
  [][\A id \in OrderIds :
       (id \in Range(filled_orders) /\ orders[id].st = "filled"
          /\ orders'[id].dl = orders[id].dl + 1)
         => (filled_orders' = filled_orders /\ ready' = ready /\ stage' = stage
             /\ open_orders' = open_orders)]_vars
\* The FILLED event of an order in filled_orders has been delivered twice
C8_Witness ==
  \E id \in OrderIds :
    id \in Range(filled_orders) /\ orders[id].type = "LIMIT" /\ orders[id].dl >= 2

\* C9: a task has at most 2 outstanding orders, and for the current phase
\* the outstanding orders plus the filled orders of the phase are at most 2.
CurrentPhase == IF StageRank(stage) >= StageRank("close_limit") THEN "close" ELSE "open"
C9_AtMostTwo ==
  /\ Len(open_orders) <= 2
  /\ OfPhase(open_orders, CurrentPhase) + OfPhase(filled_orders, CurrentPhase) <= 2

\* C10: when an order placement or cancellation of the task has raised, the
\* task's status becomes FAILED: once the task has nothing left to run after
\* such a failure, its status is FAILED.
C10_CallFailureFails ==
  (call_failed /\ ready = <<>> /\ waiting = EmptyBag) => status = FAILED
\* C11: a failure of the depth-quote call made by run() or close_limit()
\* surfaces as status FAILED: once the task has nothing left to run after
\* such a failure, its status is FAILED.
C11_QuoteFailureFails ==
  (quote_failed /\ ready = <<>> /\ waiting = EmptyBag) => status = FAILED

\* C12: when run() resumes from the gather with a placement that raised, that
\* step takes the task to FAILED, registers no order and submits no order.
C12_PlacementErrorFailsAtOnce ==
  [][(/\ ready # <<>>
      /\ Head(ready).k = "run" /\ Head(ready).pc = "placed"
      /\ \E i \in 1..2 : orders[Head(ready).res[i]].st = "rejected"
      /\ ready' = Tail(ready))
       => (status' = FAILED /\ open_orders' = <<>> /\ orders' = orders)]_vars

\* C13: an event delivered for an order before the task registered it is not
\* lost: a registered order whose FILLED event has been delivered is no
\* longer outstanding, and a registered order whose EXPIRED event has been
\* delivered is no longer outstanding unless its handle_failed_limit_order
\* task still waits to start.
C13_EarlyEventNotLost ==
  \A id \in Range(open_orders) :
    /\ orders[id].st # "filled"
    /\ orders[id].st = "expired" =>
         \E i \in 1..Len(ready) :
           /\ ready[i].k = "handle_failed_limit_order" /\ ready[i].pc = "start"
           /\ ready[i].oid = id

\* C14: a pass of remove_finished_tasks leaves no task that was COMPLETED or
\* FAILED when the pass began in the occupancy index entry of any account.
C14_TerminalLeavesIndex ==
  [][(Tick \/ RemoveRaises) =>
       \A t \in Range(running_tasks) :
         tasks[t].status \in {COMPLETED, FAILED} =>
           \A a \in DOMAIN account_running_tasks' : t \notin account_running_tasks'[a]]_vars

\* C15: the number of running tasks never exceeds max_concurrent_tasks.
C15_AtMostLimit == Len(running_tasks) <= max_concurrent_tasks
\* The launch loop was left at the limit while a further task could be generated
C15_Witness ==
  /\ epc = "tick_sleep"
  /\ Len(running_tasks) = max_concurrent_tasks
  /\ generate_next_task(account_running_tasks) # {}

\* C16: once the stop flag is set, no step creates a task, inserts one into
\* running_tasks or launches one.
C16_NoAdmissionAfterStop ==
  [][stop_flag =>
       /\ Len(tasks') = Len(tasks)
       /\ Range(running_tasks') \subseteq Range(running_tasks)
       /\ \A t \in TaskIds : tasks'[t].launched = tasks[t].launched]_vars

\* C17: when the admission loop is over while tasks are still running, the
\* run loop waits: its next step neither starts persistence and clear_all
\* nor ends task_runner.
C17_WaitsForRunning ==
  [][(AtLoopHead /\ ~LoopCond /\ running_tasks # <<>>) =>
       epc' \notin {"clear_all", "close", "done", "raised"}]_vars

\* C18: a task is created, and a task is launched, only while the number of
\* completed plus failed tasks is below times.
C18_NoLaunchAtTarget ==
  [][/\ Len(tasks') > Len(tasks) =>
          Len(completed_tasks') + Len(failed_tasks') < Times
     /\ (\E t \in TaskIds : tasks'[t].launched # tasks[t].launched) =>
          Len(completed_tasks) + Len(failed_tasks) < Times]_vars

\* C19: whenever task_runner has gone past clear_all (the accounts are being
\* closed, or it has returned or raised), clear_all has created both calls
\* for every account and each of them has returned or raised.
C19_ReconcileOnEveryExit ==
  epc \in {"close", "done", "raised"} =>
    \A a \in Accounts : \A c \in ClearCalls :
      /\ <<a, c>> \in DOMAIN clear_reqs
      /\ clear_reqs[<<a, c>>] # "pending"

\* C20: when task_runner raises for the error flag at its end, clear_all has
\* run: both calls were made for every account and none is still pending.
C20_ReconcileBeforeErrorRaise ==
  raised = "error_flag" =>
    /\ reconciled
    /\ DOMAIN clear_reqs = Accounts \X ClearCalls
    /\ \A r \in DOMAIN clear_reqs : clear_reqs[r] \in {"done", "failed"}
\* The raise at the end, after a clear_all in which a call of one account
\* raised and the calls of another account returned
C20_Witness ==
  /\ raised = "error_flag"
  /\ \E r \in DOMAIN clear_reqs : clear_reqs[r] = "failed"
  /\ \E r \in DOMAIN clear_reqs : clear_reqs[r] = "done"

\* C21: generate_available_account_symbols maps each market to exactly the
\* accounts that support it and hold no task on it in the occupancy index,
\* and its keys are exactly the markets with at least 2 such accounts.
C21_AvailableExact ==
  LET res == generate_available_account_symbols(account_running_tasks)
      free(m) == {a \in Accounts :
                    /\ m \in AccountSymbols(a)
                    /\ \A t \in IndexOf(account_running_tasks, a) : tasks[t].symbol # m}
  IN /\ DOMAIN res = {m \in Symbols : Cardinality(free(m)) >= 2}
     /\ \A m \in DOMAIN res : res[m] = free(m)
\* An account busy on one market is listed for another, while a market with a
\* single free account is not a key
C21_Witness ==
  LET res == generate_available_account_symbols(account_running_tasks)
  IN /\ \E a \in DOMAIN account_running_tasks : \E t \in account_running_tasks[a] :
          \E m \in DOMAIN res : m # tasks[t].symbol /\ a \in res[m]
     /\ \E m \in Symbols \ DOMAIN res :
          Cardinality(EligibleAccounts(account_running_tasks, m)) = 1

\* C22: a task the launch loop has just generated is bound to two distinct
\* accounts that both support its market, and no other task the occupancy
\* index holds under either account is on that market.
C22_TaskWellBound ==
  [][Len(tasks') > Len(tasks) =>
       LET id == Len(tasks')
           t == tasks'[id]
       IN /\ t.symbol \in Symbols
          /\ t.first # t.second
          /\ \A a \in {t.first, t.second} :
               /\ a \in Accounts
               /\ t.symbol \in AccountSymbols(a)
               /\ \A u \in IndexOf(account_running_tasks', a) \ {id} :
                    tasks'[u].symbol # t.symbol]_vars
\* A second task was generated on another market with the first account of a
\* task that is still running
C22_Witness ==
  /\ Len(running_tasks) >= 2
  /\ \E t, u \in Range(running_tasks) :
       /\ t < u
       /\ tasks[u].symbol # tasks[t].symbol
       /\ tasks[u].first = tasks[t].first

\* C23: generate_next_task returns None exactly when no market has at least
\* 2 accounts that support it and hold no task on it in the occupancy index.
C23_NoneIffNoMarket ==
  LET free(m) == {a \in Accounts :
                    /\ m \in AccountSymbols(a)
                    /\ \A t \in IndexOf(account_running_tasks, a) : tasks[t].symbol # m}
  IN (generate_next_task(account_running_tasks) = {})
       <=> (\A m \in Symbols : Cardinality(free(m)) < 2)
\* Every market is taken, and one market is left with a single free account
C23_Witness ==
  /\ generate_next_task(account_running_tasks) = {}
  /\ \E m \in Symbols : Cardinality(EligibleAccounts(account_running_tasks, m)) = 1

\* C24: events reach the task only while the occupancy index holds it; a
\* FILLED event whose order id is not a key of open_orders changes neither
\* stage, status, open_orders, filled_orders, cancel_orders nor the buffer,
\* places no order and schedules nothing; handle_failed_limit_order for an
\* order id that is not a key of open_orders adds the id to
\* expired_order_id_map and does nothing else.
C24_UnrecognizedEventFrame ==
  [][/\ \A id \in OrderIds :
          orders'[id].dl = orders[id].dl + 1 =>
            /\ ~retired
            /\ (orders'[id].st = "filled" /\ id \notin Range(open_orders)) =>
                 /\ UNCHANGED <<stage, status, open_orders, filled_orders, cancel_orders,
                                expired_order_id_map, ready, waiting>>
                 /\ Len(orders') = Len(orders)
     /\ (/\ ready # <<>>
         /\ Head(ready).k = "handle_failed_limit_order" /\ Head(ready).pc = "start"
         /\ Head(ready).oid \notin Range(open_orders)
         /\ ready' = Tail(ready)) =>
           /\ UNCHANGED <<stage, status, open_orders, filled_orders, cancel_orders,
                          waiting>>
           /\ Len(orders') = Len(orders)
           /\ expired_order_id_map' = expired_order_id_map \cup {Head(ready).oid}]_vars
\* The EXPIRED event of another task's order was recorded in the buffer, and
\* the FILLED event of an order not yet registered was dropped
C24_Witness ==
  /\ ForeignId \in expired_order_id_map
  /\ \E id \in OrderIds :
       /\ orders[id].type = "LIMIT" /\ orders[id].st = "filled"
       /\ id \notin Range(filled_orders)

\* C25: whenever close_limit() is about to run, none of its checks can
\* raise: the task has no outstanding order and exactly 2 filled orders, one
\* OPEN BUY and one OPEN SELL, on different accounts.
C25_CloseLimitPrecondition ==
  (ready # <<>> /\ Head(ready).k = "close_limit" /\ Head(ready).pc = "start") =>
    /\ CloseLimitChecks
    /\ orders[OpenFilled("BUY")[1]].acct # orders[OpenFilled("SELL")[1]].acct

\* C26: close_limit() places exactly two GTX orders, a SELL with the quantity
\* and on the account of the filled OPEN BUY order and a BUY with the
\* quantity and on the account of the filled OPEN SELL order; when both
\* placements succeed, both orders are keys of open_orders and the stage is
\* close_limit once they are registered.
C26_CloseLimitOrders ==
  [][/\ (/\ ready # <<>>
         /\ Head(ready).k = "close_limit" /\ Head(ready).pc = "priced"
         /\ ready' = Tail(ready)) =>
           /\ Len(orders') = Len(orders) + 2
           /\ \E b, c \in Range(filled_orders) :
                /\ orders[b].hold = "open" /\ orders[b].side = "BUY"
                /\ orders[c].hold = "open" /\ orders[c].side = "SELL"
                /\ \E x, y \in {Len(orders) + 1, Len(orders) + 2} :
                     /\ x # y
                     /\ orders'[x].type = "LIMIT" /\ orders'[x].tif = "GTX"
                     /\ orders'[x].hold = "close" /\ orders'[x].side = "SELL"
                     /\ orders'[x].qty = orders[b].qty /\ orders'[x].acct = orders[b].acct
                     /\ orders'[y].type = "LIMIT" /\ orders'[y].tif = "GTX"
                     /\ orders'[y].hold = "close" /\ orders'[y].side = "BUY"
                     /\ orders'[y].qty = orders[c].qty /\ orders'[y].acct = orders[c].acct
     /\ (/\ ready # <<>>
         /\ Head(ready).k = "close_limit" /\ Head(ready).pc = "placed"
         /\ \A i \in 1..2 : orders[Head(ready).res[i]].st # "rejected"
         /\ \A i \in 1..2 : Head(ready).res[i] \notin expired_order_id_map
         /\ ready' = Tail(ready)) =>
           /\ \A i \in 1..2 : Head(ready).res[i] \in Range(open_orders')
           /\ stage' = "close_limit"]_vars

C28_MarketReplaces ==
  [][/\ (Len(orders') = Len(orders) + 1 /\ orders'[Len(orders')].type = "MARKET") =>
          LET m == orders'[Len(orders')]
              r == m.repl
          IN /\ r \in OrderIds
             /\ orders[r].type = "LIMIT" /\ orders[r].tif = "GTX"
             /\ m.symbol = orders[r].symbol /\ m.side = orders[r].side
             /\ m.qty = orders[r].qty /\ m.hold = orders[r].hold
             /\ m.acct = orders[r].acct
             /\ m.tif = "None" /\ m.price = "None"
             /\ r \in Range(open_orders) \/ (~orders[r].reg /\ orders'[r].reg)
             /\ r \notin Range(open_orders') /\ r \notin Range(cancel_orders)
             /\ Len(SelectSeq(cancel_orders', LAMBDA x : x = r)) = 1
     /\ \A id \in OrderIds :
          /\ Len(SelectSeq(cancel_orders', LAMBDA x : x = id)) <= 1
          /\ orders[id].type = "MARKET" =>
               Len(SelectSeq(filled_orders', LAMBDA x : x = id)) <= 1
     /\ (HandleFailedOrdered \/ MarketOrdered \/ (Register /\ Head(ready).pc = "ordered")) =>
          Len(SelectSeq(filled_orders', LAMBDA x : x = Head(ready).nid)) = 1]_vars

C28_Witness ==
  \E m, n \in Range(filled_orders) :
    /\ orders[m].type = "MARKET" /\ orders[m].via = "handle_failed_limit_order"
    /\ orders[n].type = "MARKET" /\ orders[n].via = "open_market"
    /\ orders[m].qty # orders[n].qty
    /\ {orders[m].repl, orders[n].repl} \subseteq Range(cancel_orders)

\* C29: finish() and failed(), called on the task as it is in any reachable
\* state, leave open_orders, filled_orders, cancel_orders,
\* expired_order_id_map and the orders at the exchange as they are and
\* schedule or await nothing; finish() sets status COMPLETED and stage
\* completed, failed() sets status FAILED and leaves the stage.
C29_TerminalTransitionsPure ==
  /\ \A t \in {finish(TS), failed(TS)} :
       /\ t.open = open_orders /\ t.filled = filled_orders /\ t.cancel = cancel_orders
       /\ t.map = expired_order_id_map
       /\ t.orders = orders
       /\ t.ready = ready /\ t.waiting = waiting
       /\ t.holds = hold_calls
  /\ finish(TS).status = COMPLETED /\ finish(TS).stage = "completed"
  /\ failed(TS).status = FAILED /\ failed(TS).stage = stage

C29_Witness ==
  /\ finish_calls >= 1 /\ status = COMPLETED
  /\ \E id \in OrderIds : orders[id].hold = "close" /\ orders[id].st = "rejected"
  /\ filled_orders # <<>>

\* C30: a quantity order() derived from the notional and the price is a
\* multiple of the market's quantity step and is not greater than the
\* notional divided by the price.
C30_QuantityRoundedDown ==
  opc = "derived" =>
    LET step == StepFloat(step_size)
        scale == Pow10(params_quantity.places)
    IN /\ (params_quantity.units * step.den) % (step.num * scale) = 0
       /\ params_quantity.units * params_price <= target_amount * scale

\* C31: an order whose derived quantity is below one step never reaches the
\* exchange: order() raises without having made the request; and once run()
\* is over, the task that placed it is FAILED.
C31_UndersizedRejected ==
  \A id \in OrderIds :
    orders[id].qty = 0 =>
      /\ ~orders[id].sent /\ orders[id].st \in {"inflight", "rejected"}
      /\ (\A f \in Range(ready) \cup BagToSet(waiting) : f.k # "run") => status = FAILED

\* C32: a task starts hold() at most once and places at most two GTX
\* closing orders in its lifetime.
C32_HoldOnce ==
  /\ hold_calls <= 1
  /\ Cardinality({id \in OrderIds : orders[id].hold = "close" /\ orders[id].type = "LIMIT"}) <= 2

\* C33: when the status becomes COMPLETED the task has no outstanding order,
\* no MARKET placement awaited or back but not yet taken up, and
\* filled_orders holds exactly two OPEN and two CLOSE orders.
C33_CompletedMeansClosed ==
  [][(status # COMPLETED /\ status' = COMPLETED) =>
       /\ open_orders' = <<>>
       /\ \A f \in Range(ready') \cup BagToSet(waiting') :
            f.pc \notin {"order", "replay", "ordered"}
       /\ Len(SelectSeq(filled_orders', LAMBDA id : orders'[id].hold = "open")) = 2
       /\ Len(SelectSeq(filled_orders', LAMBDA id : orders'[id].hold = "close")) = 2]_vars

\* The signed sum of the quantities of the filled orders ids on account a
RECURSIVE Position(_, _)
Position(ids, a) ==
  IF ids = <<>> THEN 0
  ELSE LET o == orders[Head(ids)]
       IN (IF o.acct # a THEN 0 ELSE IF o.side = "BUY" THEN o.qty ELSE 0 - o.qty)
          + Position(Tail(ids), a)

\* C34: while the status is COMPLETED, the filled orders of the task sum to
\* zero on each of its two accounts (BUY positive, SELL negative).
C34_FlatWhenCompleted ==
  status = COMPLETED =>
    \A a \in {first_account, second_account} : Position(filled_orders, a) = 0

\* C35: when every call returns and every resting GTX order gets its FILLED
\* or EXPIRED event, a task that is STARTED eventually is COMPLETED or FAILED.
C35_EventuallyTerminal == (status = STARTED) ~> (status \in {COMPLETED, FAILED})

\* C36: a task is in running_tasks if and only if the occupancy index holds
\* it under both of its accounts, and a task remove_finished_tasks has put on
\* completed_tasks or failed_tasks is in neither structure.
C36_IndexConsistent ==
  /\ \A t \in TaskIds :
       t \in Range(running_tasks) <=>
         /\ t \in IndexOf(account_running_tasks, tasks[t].first)
         /\ t \in IndexOf(account_running_tasks, tasks[t].second)
  /\ \A t \in Range(completed_tasks) \cup Range(failed_tasks) :
       /\ t \notin Range(running_tasks)
       /\ \A a \in DOMAIN account_running_tasks : t \notin account_running_tasks[a]

\* C37: once task_runner has left its loops, to reconcile or by raising,
\* every task it created is COMPLETED or FAILED, so that no task places an
\* order behind the reconciliation.
C37_ReconciliationLast ==
  epc \in {"clear_all", "close", "done", "raised"} =>
    \A t \in TaskIds : tasks[t].status \in {COMPLETED, FAILED}

\* C38: when the venue answers a cancel with an error code, in simulate mode
\* cancel() does not raise and its caller resumes with the CanceledOrder;
\* outside simulate mode cancel() raises, the caller ends, and it moves
\* nothing from open_orders to cancel_orders.
C38_CancelErrorBySimulate ==
  [][\A id \in OrderIds :
       (orders'[id].cx = "code" /\ orders[id].cx # "code") =>
         LET callers(fs) == {f \in fs : f.k \in {"open_market", "close_market"} /\ f.oid = id}
         IN IF simulate
            THEN /\ unhandled' = unhandled
                 /\ \E f \in callers(Range(ready')) : f.pc = "canceled"
            ELSE /\ unhandled'
                 /\ callers(Range(ready') \cup BagToSet(waiting')) = {}
                 /\ open_orders' = open_orders /\ cancel_orders' = cancel_orders]_vars

C38_Witness ==
  /\ ~simulate /\ unhandled
  /\ \E id \in Range(open_orders) : orders[id].cx = "code" /\ orders[id].st = "filled"

\* C39: expired_order_id_map only ever holds ids of the task's own orders
\* whose placement has not yet been registered in open_orders: an entry is
\* gone once the placement path has replayed it, and the id of an order
\* already handled or of another task's order is never in it.
C39_BufferOnlyPending ==
  \A id \in expired_order_id_map :
    /\ id \in OrderIds
    /\ ~orders[id].reg
====
